---------------------------- MODULE Spec2Model ----------------------------
(***************************************************************************)
(* The scheduling engine of "Term Project Extra":                          *)
(*   dynamic_scheduler.py     dynamic_weighted_interval_scheduling         *)
(*   ant_colony_scheduler.py  ant_colony_schedule / build_ant_tour         *)
(*                                                                         *)
(* Conventions.  Python lists are 0-based, TLA+ sequences 1-based: an      *)
(* index k of the source is k+1 here, so p[i] = -1 ("no predecessor") is   *)
(* 0 here and M[p+1] of the source is M[p] here.  Times, weights and slew  *)
(* times are small integers.  A trail strength is a fixed-point number in  *)
(* units of 1e-8 (the pruning threshold of the source), so "row[j] < 1e-8" *)
(* is "row[j] < 1" here.                                                   *)
(* is "row[j] < 1" here.  alpha and beta keep their defaults 1.0 and 2.0,  *)
(* so tau is the trail itself and eta > 0 exactly when the weight is > 0.  *)
(* random.randrange and random.random are nondeterministic choices.        *)
(***************************************************************************)
EXTENDS Integers, Sequences, FiniteSets, TLC

VARIABLES
    pc,               \* position of the running call
    \* ---- dynamic_weighted_interval_scheduling
    obs_list,         \* the argument
    indices,          \* permutation sorted by end time
    p,                \* p[i]: last compatible position in end order (0: none)
    M,                \* DP table over 0..n
    ri,               \* the reconstruction loop's i
    chosen_indices,   \* indices chosen so far (in the order appended)
    dp_result,        \* the returned list of observations (as indices)
    \* ---- ant_colony_schedule
    observations, slew_matrix, num_ants, iterations, evap, top_k,
    successors, pher, heuristic,
    selected, used,   \* build_ant_tour's locals
    best_schedule, best_score, local_best, local_best_score,
    it, ant,          \* loop counters: iterations finished, ants finished
    iter_tours,       \* history: the tours built in the current iteration
    all_tours,        \* history: every tour built in the run
    aco_result        \* the returned schedule (as indices)

dpvars  == <<obs_list, indices, p, M, ri, chosen_indices, dp_result>>
inputs  == <<observations, slew_matrix, num_ants, iterations, evap, top_k>>
graph   == <<successors, heuristic>>
acovars == <<inputs, graph, pher, selected, used, best_schedule, best_score,
             local_best, local_best_score, it, ant, iter_tours, all_tours,
             aco_result>>
vars    == <<pc, dpvars, acovars>>

----------------------------------------------------------------------------
(* Bounds of the model *)

MaxDPTasks == 3
MaxGraphTasks == 7
MaxTasks == 3
MaxIter == 2
MaxAnts == 2

(* Program constants *)

INIT_PHER == 100000000      \* init_pher = 1.0 in units of 1e-8
PRUNE == 1                  \* 1e-8 in units of 1e-8
SCAN_FACTOR == 5            \* top_k * 5

----------------------------------------------------------------------------
(* Helpers standing for Python built-ins *)

Range(s) == {s[k] : k \in DOMAIN s}

Max2(a, b) == IF a >= b THEN a ELSE b
Min2(a, b) == IF a <= b THEN a ELSE b

RECURSIVE SumSeq(_)
SumSeq(s) == IF s = <<>> THEN 0 ELSE Head(s) + SumSeq(Tail(s))

Reverse(s) == [k \in 1..Len(s) |-> s[Len(s) + 1 - k]]

\* list.insert keeping a stable ascending order: x goes after every element
\* whose key is <= key[x]
InsertByKey(s, x, key) ==
    LET before == {k \in 1..Len(s) : key[s[k]] <= key[x]}
        at == Cardinality(before)
    IN  SubSeq(s, 1, at) \o <<x>> \o SubSeq(s, at + 1, Len(s))

\* sorted(range(n), key=lambda i: key[i]) : a stable sort of 1..n
RECURSIVE SortedRange(_, _)
SortedRange(n, key) ==
    IF n = 0 THEN <<>> ELSE InsertByKey(SortedRange(n - 1, key), n, key)

\* bisect.bisect_right(a, x) : lo, hi are the 0-based bounds of the source
RECURSIVE BisectRightLoop(_, _, _, _)
BisectRightLoop(a, x, lo, hi) ==
    IF lo < hi
    THEN LET mid == (lo + hi) \div 2
         IN  IF x < a[mid + 1] THEN BisectRightLoop(a, x, lo, mid)
                               ELSE BisectRightLoop(a, x, mid + 1, hi)
    ELSE lo

bisect_right_strict(a, x) == Cardinality({k \in 1..Len(a) : a[k] < x})

bisect_right(a, x) == BisectRightLoop(a, x, 0, Len(a))

\* bisect.bisect_left(a, x)
RECURSIVE BisectLeftLoop(_, _, _, _)
BisectLeftLoop(a, x, lo, hi) ==
    IF lo < hi
    THEN LET mid == (lo + hi) \div 2
         IN  IF a[mid + 1] < x THEN BisectLeftLoop(a, x, mid + 1, hi)
                               ELSE BisectLeftLoop(a, x, lo, mid)
    ELSE lo

bisect_left(a, x) == BisectLeftLoop(a, x, 0, Len(a))

----------------------------------------------------------------------------
(* Tasks *)

Times == 0..3
Intervals == {iv \in Times \X Times : iv[2] > iv[1]}

\* (weight, duration) pairs of the DP inputs.  duration is a field of its
\* own in models.Observation; the values are fourth powers, and 0 takes the
\* max(duration, 1.0) floor.
DPWeightDurations == {<<0, 1>>, <<1, 16>>, <<3, 0>>}

Obs(s, e, w, d) == [start |-> s, end |-> e, weight |-> w, duration |-> d]

DPTasks == {Obs(iv[1], iv[2], wd[1], wd[2]) :
                iv \in Intervals, wd \in DPWeightDurations}

SeqsUpTo(S, n) == UNION {[1..k -> S] : k \in 0..n}

----------------------------------------------------------------------------
(* dynamic_weighted_interval_scheduling *)

\* x ** 0.25 on the fourth powers the inputs use
Pow025(x) == CHOOSE r \in 0..x : r * r * r * r = x

TransformedWeight(o) == o.weight * Pow025(Max2(o.duration, 1))

DPStarts(obs)  == [k \in 1..Len(obs) |-> obs[k].start]
DPEnds(obs)    == [k \in 1..Len(obs) |-> obs[k].end]
DPWeights(obs) == [k \in 1..Len(obs) |-> TransformedWeight(obs[k])]

DPIndices(obs) == SortedRange(Len(obs), DPEnds(obs))

ends_s(obs)    == [k \in 1..Len(obs) |-> DPEnds(obs)[DPIndices(obs)[k]]]
starts_s(obs)  == [k \in 1..Len(obs) |-> DPStarts(obs)[DPIndices(obs)[k]]]
weights_s(obs) == [k \in 1..Len(obs) |-> DPWeights(obs)[DPIndices(obs)[k]]]

\* p[i] = bisect_right(ends_s, starts_s[i]) - 1, one higher here
ComputeP(obs) ==
    [k \in 1..Len(obs) |-> bisect_right(ends_s(obs), starts_s(obs)[k])]

\* incl = weights_s[i-1] (+ M[j+1] if j >= 0), for the source's i = k
Incl(obs, pp, m, k) ==
    IF pp[k] >= 1 THEN weights_s(obs)[k] + m[pp[k]] ELSE weights_s(obs)[k]

\* the table after the loop "for i in range(1, n+1)" has run up to i = k;
\* entries not yet written are 0.0
RECURSIVE FillM(_, _, _)
FillM(obs, pp, k) ==
    IF k = 0 THEN [j \in 0..Len(obs) |-> 0]
    ELSE LET m == FillM(obs, pp, k - 1)
             incl == Incl(obs, pp, m, k)
             excl == m[k - 1]
         IN  [m EXCEPT ![k] = IF incl > excl THEN incl ELSE excl]

JumpToPrevious(pp, k) == k - 1

\* i = j + 1 with j = p[i - 1]: continue at the last compatible position
JumpAfterInclude(pp, k) == pp[k]

DPEmpty ==
    /\ pc = "dp_start"
    /\ Len(obs_list) = 0
    /\ dp_result' = <<>>
    /\ pc' = "dp_done"
    /\ UNCHANGED <<obs_list, indices, p, M, ri, chosen_indices, acovars>>

DPBuildTable ==
    /\ pc = "dp_start"
    /\ Len(obs_list) > 0
    /\ indices' = DPIndices(obs_list)
    /\ p' = ComputeP(obs_list)
    /\ M' = FillM(obs_list, ComputeP(obs_list), Len(obs_list))
    /\ ri' = Len(obs_list)
    /\ chosen_indices' = <<>>
    /\ pc' = "dp_reconstruct"
    /\ UNCHANGED <<obs_list, dp_result, acovars>>

DPReconstructStep ==
    /\ pc = "dp_reconstruct"
    /\ ri > 0
    /\ IF Incl(obs_list, p, M, ri) >= M[ri - 1]
       THEN /\ chosen_indices' = Append(chosen_indices, indices[ri])
            /\ ri' = JumpAfterInclude(p, ri)
       ELSE /\ chosen_indices' = chosen_indices
            /\ ri' = ri - 1
    /\ UNCHANGED <<pc, obs_list, indices, p, M, dp_result, acovars>>

DPReturn ==
    /\ pc = "dp_reconstruct"
    /\ ri = 0
    /\ chosen_indices' = Reverse(chosen_indices)
    /\ dp_result' = Reverse(chosen_indices)
    /\ pc' = "dp_done"
    /\ UNCHANGED <<obs_list, indices, p, M, ri, acovars>>

AcoInitLocals ==
    /\ successors = <<>> /\ heuristic = <<>> /\ pher = <<>>
    /\ selected = <<>> /\ used = {}
    /\ best_schedule = <<>> /\ best_score = 0
    /\ local_best = <<>> /\ local_best_score = 0
    /\ it = 0 /\ ant = 0
    /\ iter_tours = {} /\ all_tours = {}
    /\ aco_result = <<>>

\* no ant-colony call is running
AcoIdle ==
    /\ observations = <<>> /\ slew_matrix = <<>>
    /\ num_ants = 0 /\ iterations = 0 /\ evap = 0 /\ top_k = 0
    /\ AcoInitLocals

\* no dynamic-programming call is running
DPIdle ==
    /\ obs_list = <<>> /\ indices = <<>> /\ p = <<>> /\ M = <<>>
    /\ ri = 0 /\ chosen_indices = <<>> /\ dp_result = <<>>

InitDP ==
    /\ pc = "dp_start"
    /\ obs_list \in SeqsUpTo(DPTasks, MaxDPTasks)
    /\ indices = <<>> /\ p = <<>> /\ M = <<>>
    /\ ri = 0 /\ chosen_indices = <<>> /\ dp_result = <<>>
    /\ AcoIdle

NextDP == DPEmpty \/ DPBuildTable \/ DPReconstructStep \/ DPReturn

SpecDP == InitDP /\ [][NextDP]_vars

----------------------------------------------------------------------------
(* Properties of dynamic_weighted_interval_scheduling *)

Compatible(a, b) == a.end <= b.start \/ b.end <= a.start

PairwiseCompatible(obs, S) ==
    \A a \in S : \A b \in S : a # b => Compatible(obs[a], obs[b])

RECURSIVE SumOver(_, _)
SumOver(f, S) ==
    IF S = {} THEN 0
    ELSE LET x == CHOOSE y \in S : TRUE IN f[x] + SumOver(f, S \ {x})

\* brute force: the best total over all pairwise non-overlapping subsets
BruteForceMax(obs) ==
    LET feas == {S \in SUBSET (1..Len(obs)) : PairwiseCompatible(obs, S)}
        tot(S) == SumOver(DPWeights(obs), S)
    IN  CHOOSE best \in {tot(S) : S \in feas} :
            \A S \in feas : tot(S) <= best

DPTotal == SumSeq([k \in 1..Len(dp_result) |-> DPWeights(obs_list)[dp_result[k]]])

\* C1: the schedule returned by the dynamic program has the maximum total
\* transformed weight over all pairwise non-overlapping subsets of the tasks.
C1_DPOptimal ==
    pc = "dp_done" => DPTotal = BruteForceMax(obs_list)

\* C1 witness: a returned schedule of two back-to-back tasks that beats a
\* heavier task overlapping both
C1_Witness ==
    /\ pc = "dp_done"
    /\ Len(obs_list) = 3
    /\ Len(dp_result) = 2
    /\ \E k \in 1..3 : /\ k \notin Range(dp_result)
                       /\ DPWeights(obs_list)[k] > 0
                       /\ \A j \in Range(dp_result) :
                            /\ ~Compatible(obs_list[k], obs_list[j])
                            /\ DPWeights(obs_list)[k] > DPWeights(obs_list)[j]

\* C2: the returned tasks are pairwise non-overlapping (and distinct).
C2_DPFeasible ==
    pc = "dp_done" =>
        \A a \in 1..Len(dp_result) : \A b \in 1..Len(dp_result) :
            a # b => /\ dp_result[a] # dp_result[b]
                     /\ Compatible(obs_list[dp_result[a]], obs_list[dp_result[b]])

\* C2 witness: a returned schedule holding two back-to-back tasks while
\* two input tasks share an end time
C2_Witness ==
    /\ pc = "dp_done"
    /\ \E a \in Range(dp_result) : \E b \in Range(dp_result) :
            obs_list[a].end = obs_list[b].start
    /\ \E a \in 1..Len(obs_list) : \E b \in 1..Len(obs_list) :
            a # b /\ obs_list[a].end = obs_list[b].end
                  /\ a \in Range(dp_result)


----------------------------------------------------------------------------
(* ant_colony_schedule: inputs *)

\* tasks of the runs: two slots that follow each other with weight 0 or 1,
\* and one task overlapping both
AcoTasks == {Obs(0, 1, 0, 1), Obs(0, 1, 1, 1), Obs(1, 2, 0, 1), Obs(1, 2, 1, 1),
             Obs(0, 2, 1, 2)}

\* tasks with end <= start, which the callers are meant to filter out
InvalidTasks == {Obs(1, 1, 1, 0), Obs(2, 1, 1, 0)}

GraphTasks == {Obs(0, 1, 1, 1), Obs(1, 2, 1, 1), Obs(2, 3, 2, 1)}

Abs(x) == IF x < 0 THEN -x ELSE x

\* a slew matrix growing with the distance between the two indices; the
\* cost between neighbours is 0 and takes the max(slew, 1) floor
SlewSpread(n) ==
    [a \in 1..n |-> [b \in 1..n |-> IF a = b THEN 0 ELSE Abs(a - b) - 1]]

\* slew matrices: all zero (every cost clipped to 1), or spread
SlewChoices(n) == { [a \in 1..n |-> [b \in 1..n |-> 0]], SlewSpread(n) }

TopKChoices == {1, 2}

\* evap in percent: the default 0.3, and 1.0 (every trail evaporates)
EvapChoices == {30, 100}

----------------------------------------------------------------------------
(* ant_colony_schedule: candidate graph (steps 1, 2 and 4) *)

Starts(obs) == [k \in 1..Len(obs) |-> obs[k].start]
Ends(obs)   == [k \in 1..Len(obs) |-> obs[k].end]

order_by_start(obs) == SortedRange(Len(obs), Starts(obs))

\* [starts[k] for k in order_by_start]
SortedStarts(obs, order) == [k \in 1..Len(obs) |-> obs[order[k]].start]

\* pos = bisect_left([starts[k] for k in order_by_start], ends[i])
Pos(obs, order, i) == bisect_left(SortedStarts(obs, order), Ends(obs)[i])

ScanLimitAll(obs, order, topk, i) == Len(obs)

\* scan_limit = min(len(order_by_start), pos + top_k * 5)
ScanLimit(obs, order, topk, i) ==
    Min2(Len(obs), Pos(obs, order, i) + topk * SCAN_FACTOR)

\* order_by_start[pos:scan_limit]
Window(obs, order, topk, i) ==
    SubSeq(order, Pos(obs, order, i) + 1, ScanLimit(obs, order, topk, i))

\* dist = max(slew_matrix[i][idx], 1)
Dist(slew, i, idx) == Max2(slew[i][idx], 1)

\* h = weight / dist, kept as the fraction <<weight, dist>>
H(obs, slew, i, idx) == <<obs[idx].weight, Dist(slew, i, idx)>>

FracLess(x, y) == x[1] * y[2] < y[1] * x[2]

\* the tuple order (h, idx) < (h', idx') of cand.sort
CandLess(obs, slew, i, a, b) ==
    \/ FracLess(H(obs, slew, i, a), H(obs, slew, i, b))
    \/ /\ ~FracLess(H(obs, slew, i, b), H(obs, slew, i, a))
       /\ a < b

\* cand.sort(reverse=True): the tuples are pairwise different, so the result
\* is the one descending arrangement
SortedCand(obs, slew, w, i) ==
    LET rank(a) == Cardinality({b \in Range(w) : CandLess(obs, slew, i, a, b)})
    IN  [k \in 1..Len(w) |-> CHOOSE a \in Range(w) : rank(a) = k - 1]

\* if len(cand) > top_k: cand = cand[:top_k]
Truncate(c, topk) == IF Len(c) > topk THEN SubSeq(c, 1, topk) ELSE c

BuildSuccessors(obs, slew, topk) ==
    LET order == order_by_start(obs)
    IN  [i \in 1..Len(obs) |->
            Truncate(SortedCand(obs, slew, Window(obs, order, topk, i), i), topk)]

BuildHeuristic(obs, slew, succ) ==
    [i \in 1..Len(obs) |-> [j \in Range(succ[i]) |-> H(obs, slew, i, j)]]

InitPherDense(n, succ) ==
    [i \in 1..n |-> [j \in (1..n) \ {i} |-> INIT_PHER]]

\* pher[i][j] = init_pher for j in successors[i]
InitPher(n, succ) ==
    [i \in 1..n |-> [j \in Range(succ[i]) |-> INIT_PHER]]

N == Len(observations)

AcoEmpty ==
    /\ pc = "aco_start"
    /\ N = 0
    /\ aco_result' = <<>>
    /\ pc' = "aco_done"
    /\ UNCHANGED <<inputs, graph, pher, selected, used, best_schedule,
                   best_score, local_best, local_best_score, it, ant,
                   iter_tours, all_tours, dpvars>>

AcoSetup ==
    /\ pc = "aco_start"
    /\ N > 0
    /\ successors' = BuildSuccessors(observations, slew_matrix, top_k)
    /\ pher' = InitPher(N, successors')
    /\ heuristic' = BuildHeuristic(observations, slew_matrix, successors')
    /\ best_schedule' = <<>>
    /\ best_score' = 0
    /\ it' = 0
    /\ pc' = "loop"
    /\ UNCHANGED <<inputs, selected, used, local_best, local_best_score, ant,
                   iter_tours, all_tours, aco_result, dpvars>>

----------------------------------------------------------------------------
(* ant_colony_schedule: build_ant_tour *)

\* pher[last].get(j, 0.0) ** alpha, alpha = 1.0
Tau(last, j) == IF j \in DOMAIN pher[last] THEN pher[last][j] ELSE 0

\* heuristic[last].get(j, 0.0) ** beta > 0, beta = 2.0
EtaPositive(last, j) ==
    j \in DOMAIN heuristic[last] /\ heuristic[last][j][1] > 0

\* tau * eta > 0
ScorePositive(last, j) == Tau(last, j) > 0 /\ EtaPositive(last, j)

\* if tau <= 0 and eta <= 0: continue
Skip(last, j) == Tau(last, j) <= 0 /\ ~EtaPositive(last, j)

\* the guard of line 88
Feasible(last, j) == observations[j].start >= observations[last].end

RECURSIVE FilterSeq(_, _)
FilterSeq(s, keep) ==
    IF s = <<>> THEN <<>>
    ELSE IF Head(s) \in keep THEN <<Head(s)>> \o FilterSeq(Tail(s), keep)
         ELSE FilterSeq(Tail(s), keep)

\* cand of one pass of the while loop, in the order of successors[last]
Cand(last) ==
    FilterSeq(successors[last],
              {j \in Range(successors[last]) :
                    j \notin used /\ Feasible(last, j) /\ ~Skip(last, j)})

\* total <= 0 : every score is zero (scores are never negative)
TotalZero(c) == \A k \in 1..Len(c) : ~ScorePositive(selected[Len(selected)], c[k])

\* What the choice can be.  total <= 0: cand.sort(reverse=True) puts the
\* largest index first, all scores being equal.  Otherwise the roulette
\* returns a candidate of positive score, the first candidate (r = 0.0), or
\* the preset cand[-1] when rounding leaves acc below r.
Choices(c) ==
    IF TotalZero(c)
    THEN {CHOOSE j \in Range(c) : \A k \in Range(c) : k <= j}
    ELSE {j \in Range(c) : ScorePositive(selected[Len(selected)], j)}
            \cup {c[1], c[Len(c)]}

NewTourStale(start_idx) == Append(selected, start_idx)

\* selected = []; selected.append(start_idx)
NewTour(start_idx) == <<start_idx>>

Score(tour) == SumSeq([k \in 1..Len(tour) |-> observations[tour[k]].weight])

TourStart ==
    /\ pc = "ants"
    /\ ant < num_ants
    /\ \E start_idx \in 1..N :
          /\ selected' = NewTour(start_idx)
          /\ used' = {start_idx}
    /\ pc' = "tour"
    /\ UNCHANGED <<inputs, graph, pher, best_schedule, best_score, local_best,
                   local_best_score, it, ant, iter_tours, all_tours,
                   aco_result, dpvars>>

TourExtend ==
    /\ pc = "tour"
    /\ Cand(selected[Len(selected)]) # <<>>
    /\ \E chosen \in Choices(Cand(selected[Len(selected)])) :
          /\ selected' = Append(selected, chosen)
          /\ used' = used \cup {chosen}
    /\ UNCHANGED <<pc, inputs, graph, pher, best_schedule, best_score,
                   local_best, local_best_score, it, ant, iter_tours,
                   all_tours, aco_result, dpvars>>

LocalImproves(score, best) == score > best

GlobalImprovesAlways(score, best) == TRUE

GlobalImproves(score, best) == score > best

\* "if not cand: break", then lines 127-133 of the caller
TourEndBody ==
    /\ pc = "tour"
    /\ Cand(selected[Len(selected)]) = <<>>
    /\ LET score == Score(selected) IN
          /\ IF LocalImproves(score, local_best_score)
             THEN local_best_score' = score /\ local_best' = selected
             ELSE UNCHANGED <<local_best_score, local_best>>
          /\ IF GlobalImproves(score, best_score)
             THEN best_score' = score /\ best_schedule' = selected
             ELSE UNCHANGED <<best_score, best_schedule>>
    /\ ant' = ant + 1
    /\ pc' = "ants"
    /\ UNCHANGED <<inputs, graph, pher, selected, used, it, aco_result, dpvars>>

TourEnd == TourEndBody /\ UNCHANGED <<iter_tours, all_tours>>

\* the same step, with the finished tour added to the history variables
TourEndRecorded ==
    /\ TourEndBody
    /\ iter_tours' = iter_tours \cup {selected}
    /\ all_tours' = all_tours \cup {selected}

----------------------------------------------------------------------------
(* ant_colony_schedule: main loop, pheromone update, result *)

IterBegin ==
    /\ pc = "loop"
    /\ it < iterations
    /\ local_best_score' = 0
    /\ local_best' = <<>>
    /\ ant' = 0
    /\ iter_tours' = {}
    /\ pc' = "ants"
    /\ UNCHANGED <<inputs, graph, pher, selected, used, best_schedule,
                   best_score, it, all_tours, aco_result, dpvars>>

\* v * (1 - evap) with evap in percent, rounded down
Evaporated(v) == (v \div 100) * (100 - evap) + ((v % 100) * (100 - evap)) \div 100

\* row[j] *= (1 - evap); entries below 1e-8 are deleted
EvaporateRow(row) ==
    [j \in {k \in DOMAIN row : Evaporated(row[k]) >= PRUNE} |-> Evaporated(row[j])]

Evaporate ==
    /\ pc = "ants"
    /\ ant >= num_ants
    /\ pher' = [i \in 1..N |-> EvaporateRow(pher[i])]
    /\ pc' = "deposit"
    /\ UNCHANGED <<inputs, graph, selected, used, best_schedule, best_score,
                   local_best, local_best_score, it, ant, iter_tours,
                   all_tours, aco_result, dpvars>>

\* deposit = local_best_score / (1.0 + len(local_best))
DepositAmount(score, tour) == (score * INIT_PHER) \div (1 + Len(tour))

\* one pass of "for k in range(len(local_best) - 1)"
DepositEdge(ph, a, b, deposit) ==
    IF b \in DOMAIN ph[a]
    THEN [ph EXCEPT ![a][b] = @ + deposit]
    ELSE IF b \in Range(successors[a])
         THEN [ph EXCEPT ![a] = [j \in DOMAIN ph[a] \cup {b} |->
                                    IF j = b THEN INIT_PHER + deposit ELSE ph[a][j]]]
         ELSE ph

RECURSIVE DepositTour(_, _, _, _)
DepositTour(ph, tour, deposit, k) ==
    IF k >= Len(tour) THEN ph
    ELSE DepositTour(DepositEdge(ph, tour[k], tour[k + 1], deposit),
                     tour, deposit, k + 1)

Deposit ==
    /\ pc = "deposit"
    /\ pher' = IF local_best # <<>>
               THEN DepositTour(pher, local_best,
                                DepositAmount(local_best_score, local_best), 1)
               ELSE pher
    /\ it' = it + 1
    /\ pc' = "loop"
    /\ UNCHANGED <<inputs, graph, selected, used, best_schedule, best_score,
                   local_best, local_best_score, ant, iter_tours, all_tours,
                   aco_result, dpvars>>

\* best_schedule_obs.sort(key=lambda o: o.start), a stable sort
RECURSIVE SortByStart(_)
SortByStart(s) ==
    IF s = <<>> THEN <<>>
    ELSE InsertByKey(SortByStart(SubSeq(s, 1, Len(s) - 1)), s[Len(s)],
                     Starts(observations))

AcoReturn ==
    /\ pc = "loop"
    /\ it >= iterations
    /\ aco_result' = IF best_schedule = <<>> THEN <<>>
                     ELSE SortByStart(best_schedule)
    /\ pc' = "aco_done"
    /\ UNCHANGED <<inputs, graph, pher, selected, used, best_schedule,
                   best_score, local_best, local_best_score, it, ant,
                   iter_tours, all_tours, dpvars>>


\* the candidate graph alone, on inputs long enough for the scan window to
\* cut the feasible suffix
InitGraph ==
    /\ pc = "aco_start"
    /\ observations \in SeqsUpTo(GraphTasks, MaxGraphTasks)
    /\ slew_matrix \in SlewChoices(Len(observations))
    /\ top_k \in TopKChoices
    /\ num_ants = 0 /\ iterations = 0 /\ evap = 0
    /\ AcoInitLocals
    /\ DPIdle

SpecGraph == InitGraph /\ [][AcoSetup]_vars

AcoParams ==
    /\ slew_matrix = SlewSpread(Len(observations))
    /\ top_k \in TopKChoices
    /\ evap \in EvapChoices
    /\ num_ants \in 1..MaxAnts
    /\ iterations \in 1..MaxIter

\* a run on validated input (end > start for every task)
Init ==
    /\ pc = "aco_start"
    /\ observations \in SeqsUpTo(AcoTasks, MaxTasks)
    /\ AcoParams
    /\ AcoInitLocals
    /\ DPIdle

\* a run on input that may hold a task with end <= start
InitUnvalidated ==
    /\ pc = "aco_start"
    /\ observations \in SeqsUpTo(AcoTasks \cup InvalidTasks, MaxTasks)
    /\ AcoParams
    /\ AcoInitLocals
    /\ DPIdle

Next ==
    \/ AcoEmpty
    \/ AcoSetup
    \/ IterBegin
    \/ TourStart
    \/ TourExtend
    \/ TourEnd
    \/ Evaporate
    \/ Deposit
    \/ AcoReturn

Spec == Init /\ [][Next]_vars

\* the same run with the history of the tours it built
NextHistory ==
    \/ AcoEmpty
    \/ AcoSetup
    \/ IterBegin
    \/ TourStart
    \/ TourExtend
    \/ TourEndRecorded
    \/ Evaporate
    \/ Deposit
    \/ AcoReturn

SpecHistory == Init /\ [][NextHistory]_vars

SpecUnvalidated == InitUnvalidated /\ [][Next]_vars

----------------------------------------------------------------------------
(* Properties of the candidate graph *)

\* 0-based position of task j in the stable start-sorted order
PositionByStart(obs, j) ==
    Cardinality({k \in 1..Len(obs) :
        \/ obs[k].start < obs[j].start
        \/ obs[k].start = obs[j].start /\ k < j})

\* 0-based first position of the start-sorted order whose start >= end_i
FirstFeasible(obs, i) ==
    Cardinality({k \in 1..Len(obs) : obs[k].start < obs[i].end})

InWindow(obs, topk, i, j) ==
    /\ FirstFeasible(obs, i) <= PositionByStart(obs, j)
    /\ PositionByStart(obs, j) < FirstFeasible(obs, i) + topk * SCAN_FACTOR

\* C7: after the candidate graph is built, every successor list has at most
\* top_k entries, each starting at or after the task's end and taken from
\* the window of top_k*5 positions of the start order that begins at the
\* first feasible position.
C7_CandidateBounds ==
    pc = "loop" =>
        \A i \in 1..N :
            /\ Len(successors[i]) <= top_k
            /\ \A m \in 1..Len(successors[i]) :
                  /\ successors[i][m] \in 1..N
                  /\ observations[successors[i][m]].start >= observations[i].end
                  /\ InWindow(observations, top_k, i, successors[i][m])

\* C7 witness: a task whose feasible suffix is longer than the window and
\* holds, beyond the window, a task more attractive than the one kept
C7_Witness ==
    /\ pc = "loop"
    /\ \E i \in 1..N :
          /\ N - FirstFeasible(observations, i) > top_k * SCAN_FACTOR
          /\ Len(successors[i]) = top_k
          /\ \E j \in 1..N :
                /\ observations[j].start >= observations[i].end
                /\ ~InWindow(observations, top_k, i, j)
                /\ \A m \in 1..Len(successors[i]) :
                      FracLess(H(observations, slew_matrix, i, successors[i][m]),
                               H(observations, slew_matrix, i, j))

----------------------------------------------------------------------------
(* Properties of the ant-colony run *)

\* duplicate-free and pairwise non-overlapping
TourFeasible(t) ==
    \A a \in 1..Len(t) : \A b \in 1..Len(t) :
        a # b => /\ t[a] # t[b]
                 /\ Compatible(observations[t[a]], observations[t[b]])

\* C3: every tour of build_ant_tour, at every point of its construction, is
\* duplicate-free and pairwise non-overlapping, and so are the global-best
\* tour and the schedule returned from it.
C3_ToursFeasible ==
    /\ TourFeasible(selected)
    /\ TourFeasible(local_best)
    /\ TourFeasible(best_schedule)
    /\ TourFeasible(aco_result)

\* C3 witness: a returned schedule of two tasks, built in a run over three
\* tasks one of which overlaps a returned one
C3_Witness ==
    /\ pc = "aco_done"
    /\ N = 3
    /\ Len(aco_result) = 2
    /\ \E k \in 1..N : \E j \in Range(aco_result) :
          k \notin Range(aco_result)
          /\ ~Compatible(observations[k], observations[j])

\* C4: every key (i, j) of the pheromone table is a candidate edge.
C4_PherSparse ==
    pc # "aco_start" =>
        \A i \in DOMAIN pher : DOMAIN pher[i] \subseteq Range(successors[i])

\* C4 witness: after an evaporation that pruned every trail, a deposit has
\* put one candidate edge back while another candidate edge stays pruned
C4_Witness ==
    /\ pc = "loop"
    /\ it >= 1
    /\ \E i \in 1..N : \E j \in DOMAIN pher[i] : pher[i][j] > INIT_PHER
    /\ \E i \in 1..N : \E j \in Range(successors[i]) : j \notin DOMAIN pher[i]

\* C5: best_score never decreases, and it always is the total raw weight of
\* best_schedule.
C5_BestMonotone ==
    /\ [](best_score = Score(best_schedule))
    /\ [][best_score' >= best_score]_vars

\* C5 witness: a later iteration has finished a tour that scores less than
\* the global best of an earlier one
C5_Witness ==
    /\ pc = "ants"
    /\ it >= 1
    /\ ant >= 1
    /\ local_best # <<>>
    /\ local_best_score < best_score
    /\ Score(selected) < best_score

HasInvalidInterval ==
    \E k \in 1..N : observations[k].end <= observations[k].start

\* C8: a call given a task with end <= start fails with InvalidInterval and
\* returns no schedule.  (The call has no failing exit: it can only return.)
C8_FailsFast ==
    HasInvalidInterval => pc # "aco_done"

\* the unused candidate successors of the last chosen task that start at or
\* after its end
FeasibleUnused(last) ==
    {j \in Range(successors[last]) :
        j \notin used /\ observations[j].start >= observations[last].end}

\* C9: a tour stops being extended only when the last chosen task has no
\* unused candidate successor starting at or after its end; whenever there
\* is one, the tour is extended by one of them.
C9_StopsOnlyWhenNoneFeasible ==
    /\ [](pc = "tour" /\ FeasibleUnused(selected[Len(selected)]) # {}
            => Cand(selected[Len(selected)]) # <<>>)
    /\ [][pc = "tour" /\ pc' = "tour" =>
            /\ FeasibleUnused(selected[Len(selected)]) # {}
            /\ selected' = Append(selected, selected'[Len(selected')])
            /\ selected'[Len(selected')] \in FeasibleUnused(selected[Len(selected)])
         ]_vars

\* the tours of the current iteration with the highest score
IterationBest == {t \in iter_tours : \A u \in iter_tours : Score(u) <= Score(t)}

AllBest == {t \in all_tours : \A u \in all_tours : Score(u) <= Score(t)}

SortedByStart(r) ==
    \A a \in 1..Len(r) : \A b \in 1..Len(r) :
        a < b => observations[r[a]].start <= observations[r[b]].start

\* C6: on at least one task, with num_ants >= 1 and iterations >= 1, the
\* returned schedule holds exactly the tasks of one tour built in the run
\* whose score is the highest of all tours built, in non-decreasing start
\* time.
C6_ReturnsBestTour ==
    (pc = "aco_done" /\ N >= 1 /\ num_ants >= 1 /\ iterations >= 1) =>
        /\ SortedByStart(aco_result)
        /\ \E t \in AllBest :
              /\ Len(aco_result) = Len(t)
              /\ Range(aco_result) = Range(t)

\* the consecutive pairs of a tour
Edges(t) == {<<t[k], t[k + 1]>> : k \in 1..(Len(t) - 1)}

\* the table after the deposit of tour t with its score: every consecutive
\* candidate edge gains score / (1 + length), an absent one is set to
\* T0 + deposit, and no other entry changes
DepositedFrom(ph, t) ==
    LET d == (Score(t) * INIT_PHER) \div (1 + Len(t))
        hit(i) == {j \in Range(successors[i]) : <<i, j>> \in Edges(t)}
    IN  [i \in 1..N |->
            [j \in DOMAIN ph[i] \cup hit(i) |->
                IF j \in hit(i)
                THEN (IF j \in DOMAIN ph[i] THEN ph[i][j] ELSE INIT_PHER) + d
                ELSE ph[i][j]]]

\* the table after every entry is multiplied by 1 - evap and the entries
\* below 1e-8 are deleted
EvaporatedFrom(ph) ==
    LET val(v) == Evaporated(v)
    IN  [i \in 1..N |->
            [j \in {k \in DOMAIN ph[i] : val(ph[i][k]) >= PRUNE} |-> val(ph[i][j])]]

\* C10: the pheromone update of an iteration starts only after all
\* num_ants tours are built; it evaporates every entry before any deposit;
\* the deposit is the one of the iteration's best tour.
C10_UpdateOrder ==
    /\ [](pc = "deposit" => ant = num_ants)
    /\ [][pc' = "deposit" /\ pc # "deposit" =>
            /\ pc = "ants" /\ ant = num_ants
            /\ pher' = EvaporatedFrom(pher)]_vars
    /\ [][pc = "deposit" /\ pc' # "deposit" =>
            \E t \in IterationBest : pher' = DepositedFrom(pher, t)]_vars
    /\ [][pher' # pher => pc \in {"aco_start", "ants", "deposit"}]_vars

=============================================================================
